---- MODULE Spec2Model ----
(***************************************************************************)
(* A model of hyprsession: the window matcher (src/utils.ts), the group    *)
(* tracker, the session reconciler and the periodic snapshot               *)
(* (src/hyprsession.ts), over the compositor control channel               *)
(* (src/hyprbun.ts).                                                       *)
(*                                                                         *)
(* A live window is a record with the fields of the Window interface the   *)
(* program reads (address, initialTitle, initialClass, class, pid,         *)
(* floating, size, at, workspace.name, grouped) and one it only copies     *)
(* (title).  A saved descriptor is such a record plus the launch fields    *)
(* cmd, appImage and flatpak.  Strings are TLA+ strings; a field that is   *)
(* `undefined' in JavaScript holds the value Undefined in memory and is    *)
(* absent from the record once it went through JSON.                      *)
(***************************************************************************)
EXTENDS Integers, Sequences, FiniteSets, Bags, TLC

VARIABLES
    flags,      \* cli.flags: restoreSession, saveSession, autoSave, interval, silent
    live,       \* the compositor's window list, as hyprctl j/clients returns it
    file,       \* session.json: absent, corrupt, or ok with the written array
    pc,         \* where the main control flow is
    session,    \* restoreSession's local `session` (loaded and sorted)
    idx,        \* position of the for-of loop in session (next to process)
    groups,     \* HyprSession.groups: group identifier -> recorded entries
    events,     \* every clients query of the matcher and every dispatch, in order
    matched,    \* per processed saved window: its saved address and the index in
                \* live of its match (0: none)
    observed,   \* per checkGroup call: its key, its address and what it returned
    stores,     \* the storeSession calls in flight (and the one that failed)
    timers,     \* pending setTimeout callbacks (each calls storeSession()), by delay
    snapshots,  \* number of completed writes of the session file
    sigints,    \* number of SIGINT signals delivered
    exitCode,   \* <<>> while the process runs, <<status>> after process.exit(status)
    spinner,    \* HyprSession.spinner exists
    messages,   \* the bag of lines the process printed, through the spinner or the console
    ctl         \* one HyprBun.hyprctl call: its promise, socket and timeout

vars == <<flags, live, file, pc, session, idx, groups, events, matched,
          observed, stores, timers, snapshots, sigints, exitCode,
          spinner, messages, ctl>>

(***************************************************************************)
(* Bounds of the model.                                                    *)
(***************************************************************************)
MaxLive == 2        \* longest live window list of the matcher's inputs
MaxSession == 3     \* most windows of a session with free group layout
MaxSorted == 5      \* most windows of a session with free group sizes
MaxSnapshots == 2   \* timer-driven snapshots taken before the timer is left pending
MaxSigint == 1      \* SIGINT signals delivered
MaxChunks == 3      \* data events of one hyprctl call
MaxCalls == 2       \* hyprctl calls made one after the other
MaxMembers == 3     \* live windows of the group whose side is guessed

Undefined == "undefined"

(***************************************************************************)
(* Strings.                                                                *)
(***************************************************************************)
\* String.prototype.includes: sub occurs in s as a contiguous substring.
Includes(s, sub) ==
    \E i \in 1..(Len(s) - Len(sub) + 1) : SubSeq(s, i, i + Len(sub) - 1) = sub

\* Array.prototype.join(sep) on an array of strings.
RECURSIVE Join(_, _)
Join(arr, sep) ==
    IF Len(arr) = 0 THEN ""
    ELSE IF Len(arr) = 1 THEN arr[1]
    ELSE arr[1] \o sep \o Join(Tail(arr), sep)

\* A property read: the field's value, undefined when the object lacks it.
Get(obj, f) == IF f \in DOMAIN obj THEN obj[f] ELSE Undefined

(***************************************************************************)
(* Window Matcher (src/utils.ts).                                          *)
(***************************************************************************)
\* Array.prototype.find, scanning from index i, where hits[j] tells whether
\* the predicate holds of element j: the index of the first element that
\* satisfies it, 0 (undefined) when there is none.
RECURSIVE FindFrom(_, _)
FindFrom(hits, i) ==
    IF i > Len(hits) THEN 0
    ELSE IF hits[i] THEN i
    ELSE FindFrom(hits, i + 1)

Find(hits) == FindFrom(hits, 1)

\* The five predicates of findMatchingWindow, in the order of the || chain.
ByInitialTitle(client, cClient) == cClient.initialTitle = client.initialTitle
ByInitialClass(client, cClient) == cClient.initialClass = client.initialClass
ByClass(client, cClient) == cClient.class = client.class
ByClassIncludes(client, cClient) == Includes(cClient.class, client.class)
ByPid(client, cClient) == cClient.pid = client.pid

\* findMatchingWindow with the class rule tried before the title rule.
findMatchingWindow_ClassFirst(client, currentClients) ==
    LET r1 == Find([j \in 1..Len(currentClients) |-> ByClass(client, currentClients[j])])
        r2 == Find([j \in 1..Len(currentClients) |-> ByInitialTitle(client, currentClients[j])])
        r3 == Find([j \in 1..Len(currentClients) |-> ByInitialClass(client, currentClients[j])])
        r4 == Find([j \in 1..Len(currentClients) |-> ByClassIncludes(client, currentClients[j])])
        r5 == Find([j \in 1..Len(currentClients) |-> ByPid(client, currentClients[j])])
    IN  IF r1 # 0 THEN r1
        ELSE IF r2 # 0 THEN r2
        ELSE IF r3 # 0 THEN r3
        ELSE IF r4 # 0 THEN r4
        ELSE r5

\* a.find(p1) || a.find(p2) || ... : the first find that returns a window.
findMatchingWindow(client, currentClients) ==
    LET r1 == Find([j \in 1..Len(currentClients) |-> ByInitialTitle(client, currentClients[j])])
        r2 == Find([j \in 1..Len(currentClients) |-> ByInitialClass(client, currentClients[j])])
        r3 == Find([j \in 1..Len(currentClients) |-> ByClass(client, currentClients[j])])
        r4 == Find([j \in 1..Len(currentClients) |-> ByClassIncludes(client, currentClients[j])])
        r5 == Find([j \in 1..Len(currentClients) |-> ByPid(client, currentClients[j])])
    IN  IF r1 # 0 THEN r1
        ELSE IF r2 # 0 THEN r2
        ELSE IF r3 # 0 THEN r3
        ELSE IF r4 # 0 THEN r4
        ELSE r5

(***************************************************************************)
(* The compositor control channel (src/hyprbun.ts).                        *)
(***************************************************************************)
\* HyprBun.dispatch: the hyprctl command is `dispatch <dispatcher> <commands
\* joined by a blank>'.  i is the position, in the processing order, of the
\* saved window the command is issued for.
dispatch(i, dispatcher, commands) ==
    [kind |-> "dispatch", i |-> i, cmd |-> dispatcher, args |-> Join(commands, " ")]

\* HyprBun.clients: a j/clients round trip, issued by function `by'.
clients(i, by) ==
    [kind |-> "clients", i |-> i, cmd |-> by, args |-> ""]

\* What a clients() call gives its caller: the window list, or an exception
\* when the reply is not JSON (an empty reply after the timeout).
ClientsReplies(list) == {[ok |-> TRUE, list |-> list], [ok |-> FALSE, list |-> <<>>]}

(***************************************************************************)
(* Group Tracker (HyprSession.groups, checkGroup, guessSideOfGroup).       *)
(***************************************************************************)
groupIdentifier(group) == Join(group, ":")

\* checkGroup's return value in tracker state g.
checkGroup(g, group) == groupIdentifier(group) \in DOMAIN g

\* checkGroupPush that starts the list afresh on every call.
checkGroupPush_Reset(g, group, address) ==
    [k \in DOMAIN g \cup {groupIdentifier(group)} |->
        IF k = groupIdentifier(group) THEN <<address>> ELSE g[k]]

\* checkGroupPush that puts the address at the front of the list (unshift).
checkGroupPush_Unshift(g, group, address) ==
    LET id == groupIdentifier(group)
    IN  IF id \in DOMAIN g
        THEN [g EXCEPT ![id] = <<address>> \o @]
        ELSE [k \in DOMAIN g \cup {id} |-> IF k = id THEN <<address>> ELSE g[k]]

\* The tracker after checkGroup(group, address) in tracker state g.
checkGroupPush(g, group, address) ==
    LET id == groupIdentifier(group)
    IN  IF id \in DOMAIN g
        THEN [g EXCEPT ![id] = Append(@, address)]
        ELSE [k \in DOMAIN g \cup {id} |-> IF k = id THEN <<address>> ELSE g[k]]

Throws == "throws"

\* guessSideOfGroup that answers 'r' only when the base window is strictly
\* further right.
guessSideOfGroup_Strict(win, group, g, reply) ==
    IF ~reply.ok THEN Throws
    ELSE
      LET firstGroupMember == g[groupIdentifier(group)][1]
          groupBaseWindow == Find([j \in 1..Len(reply.list) |-> reply.list[j].address = firstGroupMember])
          currWindow == Find([j \in 1..Len(reply.list) |-> reply.list[j].address = win.address])
      IN  IF groupBaseWindow = 0 \/ currWindow = 0 THEN Throws
          ELSE IF reply.list[groupBaseWindow].at[1] > reply.list[currWindow].at[1]
               THEN "r"
               ELSE "l"

\* guessSideOfGroup with the two directions exchanged.
guessSideOfGroup_Exchanged(win, group, g, reply) ==
    IF ~reply.ok THEN Throws
    ELSE
      LET firstGroupMember == g[groupIdentifier(group)][1]
          groupBaseWindow == Find([j \in 1..Len(reply.list) |-> reply.list[j].address = firstGroupMember])
          currWindow == Find([j \in 1..Len(reply.list) |-> reply.list[j].address = win.address])
      IN  IF groupBaseWindow = 0 \/ currWindow = 0 THEN Throws
          ELSE IF reply.list[groupBaseWindow].at[1] >= reply.list[currWindow].at[1]
               THEN "l"
               ELSE "r"

\* guessSideOfGroup(win, group) in tracker state g, its clients() call
\* answered by reply: the Direction, or Throws when clients() throws or one of
\* the two windows is not in the list (a property read of undefined).
guessSideOfGroup(win, group, g, reply) ==
    IF ~reply.ok THEN Throws
    ELSE
      LET firstGroupMember == g[groupIdentifier(group)][1]
          groupBaseWindow == Find([j \in 1..Len(reply.list) |-> reply.list[j].address = firstGroupMember])
          currWindow == Find([j \in 1..Len(reply.list) |-> reply.list[j].address = win.address])
      IN  IF groupBaseWindow = 0 \/ currWindow = 0 THEN Throws
          ELSE IF reply.list[groupBaseWindow].at[1] >= reply.list[currWindow].at[1]
               THEN "r"
               ELSE "l"

(***************************************************************************)
(* Session Reconciler: setWindowProperties and applyRules.                 *)
(***************************************************************************)
\* StripSpecial that leaves the name as it is.
StripSpecial_Keeps(name) == name

\* name.replace(/^special:/, '')
StripSpecial(name) ==
    IF Len(name) >= 8 /\ SubSeq(name, 1, 8) = "special:"
    THEN SubSeq(name, 9, Len(name))
    ELSE name

Opt(cond, e) == IF cond THEN <<e>> ELSE <<>>

\* PlacementDispatches with the workspace comparison of line 257 left out.
PlacementDispatches_AlwaysWorkspace(client, win, i) ==
    LET target == "address:" \o win.address
    IN  Opt(win.floating /\ "size" \in DOMAIN client,
            dispatch(i, "resizewindowpixel",
                     <<ToString(client.size[1]), ToString(client.size[2]), target>>))
        \o Opt(win.floating /\ "at" \in DOMAIN client,
            dispatch(i, "movewindowpixel",
                     <<ToString(client.at[1]), ToString(client.at[2]), target>>))
        \o Opt(win.floating /\ ~client.floating,
            dispatch(i, "settiled", <<target>>))
        \o <<dispatch(i, "movetoworkspace",
                     <<StripSpecial(client.workspace.name) \o "," \o target>>)>>

\* PlacementDispatches with movetoworkspace issued first.
PlacementDispatches_WorkspaceFirst(client, win, i) ==
    LET target == "address:" \o win.address
    IN  Opt(win.workspace.name # client.workspace.name,
            dispatch(i, "movetoworkspace",
                     <<StripSpecial(client.workspace.name) \o "," \o target>>))
        \o Opt(win.floating /\ "size" \in DOMAIN client,
            dispatch(i, "resizewindowpixel",
                     <<ToString(client.size[1]), ToString(client.size[2]), target>>))
        \o Opt(win.floating /\ "at" \in DOMAIN client,
            dispatch(i, "movewindowpixel",
                     <<ToString(client.at[1]), ToString(client.at[2]), target>>))
        \o Opt(win.floating /\ ~client.floating,
            dispatch(i, "settiled", <<target>>))

\* The dispatches of lines 248-258: resize, move, settiled, movetoworkspace.
PlacementDispatches(client, win, i) ==
    LET target == "address:" \o win.address
    IN  Opt(win.floating /\ "size" \in DOMAIN client,
            dispatch(i, "resizewindowpixel",
                     <<ToString(client.size[1]), ToString(client.size[2]), target>>))
        \o Opt(win.floating /\ "at" \in DOMAIN client,
            dispatch(i, "movewindowpixel",
                     <<ToString(client.at[1]), ToString(client.at[2]), target>>))
        \o Opt(win.floating /\ ~client.floating,
            dispatch(i, "settiled", <<target>>))
        \o Opt(win.workspace.name # client.workspace.name,
            dispatch(i, "movetoworkspace",
                     <<StripSpecial(client.workspace.name) \o "," \o target>>))

\* Line 260: the live window is not grouped and the saved one is.
JoinsGroup(client, win) == Len(win.grouped) = 0 /\ Len(client.grouped) # 0

\* setWindowProperties(client, win) in tracker state g, for the saved window
\* at position i; reply answers the clients() call of guessSideOfGroup when
\* there is one.  The result holds the events issued in order, the tracker
\* afterwards, the checkGroup calls made and whether the catch clause ran.
setWindowProperties(client, win, i, g, reply) ==
    LET id == groupIdentifier(client.grouped)
        joins == JoinsGroup(client, win)
        existing == checkGroup(g, client.grouped)
        g1 == IF joins THEN checkGroupPush(g, client.grouped, win.address) ELSE g
        side == guessSideOfGroup(win, client.grouped, g1, reply)
        sideThrows == joins /\ existing /\ side = Throws
        groupEvents ==
            IF ~joins THEN <<>>
            ELSE IF ~existing THEN <<dispatch(i, "togglegroup", <<>>)>>
            ELSE <<clients(i, "guessSideOfGroup")>>
                 \o Opt(side # Throws, dispatch(i, "moveintogroup", <<side>>))
        \* line 263 reads this.groups[id].length: a TypeError when id was never observed
        lengthThrows == Len(client.grouped) # 0 /\ id \notin DOMAIN g1
        specialEvents ==
            Opt(/\ ~sideThrows
                /\ Len(client.grouped) # 0
                /\ ~lengthThrows
                /\ Len(g1[id]) = Len(client.grouped)
                /\ Includes(client.workspace.name, "special:"),
                dispatch(i, "togglespecialworkspace",
                         <<StripSpecial(client.workspace.name)>>))
    IN  [events |-> PlacementDispatches(client, win, i) \o groupEvents \o specialEvents,
         groups |-> g1,
         calls  |-> Opt(joins, [key |-> id, address |-> win.address, result |-> existing]),
         caught |-> sideThrows \/ lengthThrows]

\* JavaScript's ||: the first operand that is neither undefined nor "".
Truthy(v) == v # Undefined /\ v # ""
LaunchCommand(client) ==
    IF Truthy(Get(client, "appImage")) THEN client.appImage
    ELSE IF Truthy(Get(client, "flatpak")) THEN client.flatpak
    ELSE client.cmd

\* Rules with 'group new' and 'group set' exchanged.
Rules_GroupExchanged(client, g) ==
    (IF client.floating THEN "[float;" ELSE "[tile;")
    \o (IF client.floating /\ "size" \in DOMAIN client
        THEN " size " \o Join(<<ToString(client.size[1]), ToString(client.size[2])>>, " ") \o ";"
        ELSE "")
    \o (IF client.floating /\ "at" \in DOMAIN client
        THEN " move " \o Join(<<ToString(client.at[1]), ToString(client.at[2])>>, " ") \o ";"
        ELSE "")
    \o (IF Len(client.grouped) # 0
        THEN (IF ~checkGroup(g, client.grouped) THEN " group set;" ELSE " group new;")
        ELSE " group deny;")
    \o " workspace " \o client.workspace.name \o " silent; ]"

\* The window-rule prefix applyRules builds, in tracker state g.
Rules(client, g) ==
    (IF client.floating THEN "[float;" ELSE "[tile;")
    \o (IF client.floating /\ "size" \in DOMAIN client
        THEN " size " \o Join(<<ToString(client.size[1]), ToString(client.size[2])>>, " ") \o ";"
        ELSE "")
    \o (IF client.floating /\ "at" \in DOMAIN client
        THEN " move " \o Join(<<ToString(client.at[1]), ToString(client.at[2])>>, " ") \o ";"
        ELSE "")
    \o (IF Len(client.grouped) # 0
        THEN (IF ~checkGroup(g, client.grouped) THEN " group new;" ELSE " group set;")
        ELSE " group deny;")
    \o " workspace " \o client.workspace.name \o " silent; ]"

\* applyRules followed by a waitTillWindowIsReady poll for the launched window.
applyRules_ThenWaits(client, i, g) ==
    [events |-> <<dispatch(i, "exec", <<Rules(client, g) \o " " \o LaunchCommand(client)>>),
                  clients(i, "waitTillWindowIsReady")>>,
     groups |-> IF Len(client.grouped) # 0
                THEN checkGroupPush(g, client.grouped, client.cmd)
                ELSE g,
     calls  |-> Opt(Len(client.grouped) # 0,
                    [key |-> groupIdentifier(client.grouped), address |-> client.cmd,
                     result |-> checkGroup(g, client.grouped)]),
     caught |-> FALSE]

\* applyRules(client) in tracker state g, for the saved window at position i.
applyRules(client, i, g) ==
    [events |-> <<dispatch(i, "exec", <<Rules(client, g) \o " " \o LaunchCommand(client)>>)>>,
     groups |-> IF Len(client.grouped) # 0
                THEN checkGroupPush(g, client.grouped, client.cmd)
                ELSE g,
     calls  |-> Opt(Len(client.grouped) # 0,
                    [key |-> groupIdentifier(client.grouped), address |-> client.cmd,
                     result |-> checkGroup(g, client.grouped)]),
     caught |-> FALSE]

(***************************************************************************)
(* Process/App Resolver and Session Store, as storeSession uses them.      *)
(***************************************************************************)
\* The installed flatpaks, as the columns name,application of `flatpak list'.
FlatpakList == <<<<"App2", "org.app2">>>>

\* checkFlatpakList: the application of the first listed flatpak whose name
\* the window's initial title includes, undefined when there is none.
checkFlatpakList(client) ==
    LET found == SelectSeq(FlatpakList, LAMBDA col : Includes(client.initialTitle, col[1]))
    IN  IF Len(found) > 0 THEN found[1][2] ELSE Undefined

\* isPossibleAppImage: the Exec line of a desktop file named after the class
\* whose StartupWMClass includes it; one such desktop file exists, for class3.
isPossibleAppImage(class) ==
    IF class = "class3" THEN "/opt/app3.AppImage" ELSE Undefined

\* getProcessByPidOrName(pid)[0].cmd: the command line ps reports for pid.
ProcessCmd(pid) == "app" \o ToString(pid) \o " --bar"

\* One element of storeSession's clients.map: the window's attributes, then
\* flatpak, appImage and cmd.
Resolve(client) ==
    [flatpak  |-> checkFlatpakList(client),
     appImage |-> isPossibleAppImage(client.class),
     cmd      |-> ProcessCmd(client.pid)] @@ client

LaunchFields == {"flatpak", "appImage", "cmd"}

\* JSON.stringify then JSON.parse of one object: a property whose value is
\* undefined is not written.
JsonObject(obj) ==
    LET kept == {f \in DOMAIN obj : ~(f \in LaunchFields /\ obj[f] = Undefined)}
    IN  [f \in kept |-> obj[f]]

\* JSON.stringify then JSON.parse of an array of objects.
JsonArray(arr) == [j \in 1..Len(arr) |-> JsonObject(arr[j])]

\* CurrentSession with the windows in reverse order.
CurrentSession_Reversed(list) == [j \in 1..Len(list) |-> Resolve(list[Len(list) + 1 - j])]

\* storeSession's this.currentSession for the listed windows.
CurrentSession(list) == [j \in 1..Len(list) |-> Resolve(list[j])]

\* The content storeSession writes for the listed windows.
Written(list) == JsonArray(CurrentSession(list))

\* Array.prototype.sort((a, b) => b.grouped.length - a.grouped.length), which
\* is stable: x goes after every element that does not compare greater.
\* InsertSorted placing x before the elements that compare equal (an unstable sort).
RECURSIVE InsertSorted_Unstable(_, _)
InsertSorted_Unstable(sorted, x) ==
    IF Len(sorted) = 0 THEN <<x>>
    ELSE IF Len(x.grouped) - Len(sorted[1].grouped) < 0
         THEN <<sorted[1]>> \o InsertSorted_Unstable(Tail(sorted), x)
         ELSE <<x>> \o sorted

RECURSIVE InsertSorted(_, _)
InsertSorted(sorted, x) ==
    IF Len(sorted) = 0 THEN <<x>>
    ELSE IF Len(x.grouped) - Len(sorted[1].grouped) <= 0
         THEN <<sorted[1]>> \o InsertSorted(Tail(sorted), x)
         ELSE <<x>> \o sorted

RECURSIVE SortFrom(_, _, _)
SortFrom(arr, j, sorted) ==
    IF j > Len(arr) THEN sorted
    ELSE SortFrom(arr, j + 1, InsertSorted(sorted, arr[j]))

SortByGroupSize(arr) == SortFrom(arr, 1, <<>>)

\* restoreSession's load (line 396): the parsed file, sorted.
LoadSession(content) == SortByGroupSize(content)

(***************************************************************************)
(* The inputs: windows, live window lists and session files.               *)
(***************************************************************************)
\* A window of application k at address addr.
Window(addr, k, floating, size, at, ws, grouped) ==
    [address      |-> addr,
     initialTitle |-> "App" \o ToString(k),
     initialClass |-> "class" \o ToString(k),
     class        |-> "class" \o ToString(k),
     title        |-> "App" \o ToString(k) \o " - document",
     pid          |-> k,
     floating     |-> floating,
     size         |-> size,
     at           |-> at,
     workspace    |-> [name |-> ws],
     grouped      |-> grouped]

Address(k) == "0x" \o ToString(k)

SeqsUpTo(S, n) == UNION {[1..m -> S] : m \in 0..n}

\* A session file as storeSession leaves it after listing `list'.
FileOf(list) == [state |-> "ok", content |-> Written(list)]

\* Placement inputs: one saved window of application 1, in no group or in a
\* group of its own, and a live list that is empty or holds one window of
\* application 1.
PlacementSaved ==
    {<<Window(Address(1), 1, f, <<800, 600>>, <<100, 100>>, ws, gr)>> :
        f \in BOOLEAN, ws \in {"1", "special:x"}, gr \in {<<>>, <<Address(1)>>}}
PlacementLive ==
    {<<>>} \cup
    {<<Window(Address(1), 1, f, g[1], g[2], ws, gr)>> :
        f \in BOOLEAN,
        g \in {<< <<800, 600>>, <<100, 100>> >>, << <<400, 300>>, <<0, 0>> >>},
        ws \in {"1", "2", "special:x"},
        gr \in {<<>>, <<Address(1)>>}}

\* Group inputs: n saved windows of applications 1..n, window k in the group
\* gid[k] (0: in none); a group lists the addresses of its members in order.
Members(gid, k) ==
    IF gid[k] = 0 THEN <<>>
    ELSE SelectSeq([j \in 1..Len(gid) |-> j], LAMBDA j : gid[j] = gid[k])
GroupedOf(gid, k) == [j \in 1..Len(Members(gid, k)) |-> Address(Members(gid, k)[j])]
\* Group 2 is used only after group 1 (the group numbers are interchangeable).
Layouts(n) ==
    {gid \in [1..n -> 0..2] : \A k \in 1..n : gid[k] = 2 => \E j \in 1..(k - 1) : gid[j] = 1}
SavedOf(gid, ws) ==
    [k \in 1..Len(gid) |->
        Window(Address(k), k, FALSE, <<800, 600>>, <<100 * k, 0>>, ws, GroupedOf(gid, k))]
GroupSaved ==
    {SavedOf(gid, ws) :
        gid \in UNION {Layouts(n) : n \in 1..MaxSession}, ws \in {"1", "special:x"}}
\* The live list for n saved windows: window k is absent ("gone"), live and
\* in no group ("free"), or live and in a group already ("grouped"); the
\* windows' x-coordinates do not follow their order.
LiveOf(n, how) ==
    LET present == SelectSeq([k \in 1..n |-> k], LAMBDA k : how[k] # "gone")
    IN  [j \in 1..Len(present) |->
            Window(Address(present[j]), present[j], FALSE, <<800, 600>>,
                   <<100 * ((2 * present[j]) % (n + 1)), 0>>, "1",
                   IF how[present[j]] = "grouped" THEN <<Address(present[j])>> ELSE <<>>)]
GroupLive(n) == {LiveOf(n, how) : how \in [1..n -> {"gone", "free", "grouped"}]}

\* Ordering inputs: n saved windows whose group sizes are chosen freely among
\* 0, 1 and 3, none of them live.
SizedGroup(n) ==
    IF n = 0 THEN <<>>
    ELSE IF n = 1 THEN <<"0xa">>
    ELSE <<"0xb", "0xc", "0xd">>
SortedSaved ==
    {[k \in 1..Len(sizes) |->
        Window(Address(k), k, FALSE, <<800, 600>>, <<0, 0>>, "1", SizedGroup(sizes[k]))] :
        sizes \in SeqsUpTo({0, 1, 3}, MaxSorted) \ {<<>>}}

\* The saved lists with the live lists they are restored against.
PlacementInputs == PlacementSaved \X PlacementLive
GroupInputs == UNION {{<<saved, l>> : l \in GroupLive(Len(saved))} : saved \in GroupSaved}
SortedInputs == SortedSaved \X {<<>>}

\* A session of three windows, the first two in one group on a special
\* workspace, against every live list for it.
TrioSaved == SavedOf(<<1, 1, 0>>, "special:x")
TrioInputs == {<<TrioSaved, l>> : l \in GroupLive(3)}
ProcessInputs == TrioInputs

\* A session of four windows in two groups of two whose members alternate in
\* the file, against every live list for it.
QuadSaved == SavedOf(<<1, 2, 1, 2>>, "special:x")
QuadInputs == {<<QuadSaved, l>> : l \in GroupLive(4)}

RestoreInputs == PlacementInputs \cup GroupInputs \cup SortedInputs \cup QuadInputs

NoFile == {[state |-> "absent", content |-> <<>>], [state |-> "corrupt", content |-> <<>>]}

\* The default of --interval, in seconds.
DefaultInterval == 60
Intervals == {DefaultInterval, 5}

Flags == [restoreSession : BOOLEAN, saveSession : BOOLEAN, autoSave : BOOLEAN,
          interval : Intervals, silent : BOOLEAN]
\* The flags of a run that leaves --interval at its default.
DefaultFlags == {f \in Flags : f.interval = DefaultInterval}

(***************************************************************************)
(* Output: HyprSession.log, the spinner and console.log.                   *)
(***************************************************************************)
\* this.log(msg[, type]) when the spinner exists or not (sp): nothing without
\* a spinner or with --silent, else the text goes to the spinner.
log(sp, msg) ==
    IF ~sp \/ flags.silent THEN <<>> ELSE <<[via |-> "spinner", text |-> msg]>>

\* The first lines of storeSession and restoreSession: without --silent the
\* spinner is created and started with the text, or is given the text.
Announce(text) == IF flags.silent THEN <<>> ELSE <<[via |-> "spinner", text |-> text]>>
Spinning == spinner \/ ~flags.silent

\* console.log(msg)
consoleLog(msg) == <<[via |-> "console", text |-> msg]>>

\* The output after the lines of `said' were printed.
Printed(said) ==
    messages (+) [m \in {said[j] : j \in 1..Len(said)} |->
                    Cardinality({j \in 1..Len(said) : said[j] = m})]

\* The idle hyprctl channel: no call made yet, the socket not connected.
NoCall ==
    [phase |-> "idle", cmd |-> "", connected |-> FALSE, written |-> "", chunks |-> <<>>,
     timeout |-> 0, msg |-> "", calls |-> 0]

(***************************************************************************)
(* The process.                                                            *)
(***************************************************************************)
Running == exitCode = <<>>

\* A call of storeSession(once), about to list the windows.
StoreCall(once) ==
    [once |-> once, phase |-> "clients", content |-> <<>>, failed |-> FALSE, error |-> ""]

\* What can make storeSession's first try block throw for the listed windows:
\* clients() throws; or, when there is a window, `flatpak list' fails
\* (checkFlatpakList rejects), the applications directory cannot be read
\* (isPossibleAppImage rejects), or ps finds no process for a window's pid
\* (getProcessByPidOrName resolves to [] and [0].cmd is read of undefined).
ListErrors(list) ==
    {"clients"} \cup (IF Len(list) > 0 THEN {"flatpak", "desktop", "process"} ELSE {})

Remove(seq, k) == SubSeq(seq, 1, k - 1) \o SubSeq(seq, k + 1, Len(seq))

InitProcess ==
    /\ pc = "start"
    /\ session = <<>>
    /\ idx = 1
    /\ groups = <<>>
    /\ events = <<>>
    /\ matched = <<>>
    /\ observed = <<>>
    /\ stores = <<>>
    /\ timers = <<>>
    /\ snapshots = 0
    /\ sigints = 0
    /\ exitCode = <<>>
    /\ spinner = FALSE
    /\ messages = EmptyBag
    /\ ctl = NoCall

\* The process with its flags, its session file and the live windows.
Init ==
    /\ InitProcess
    /\ flags \in DefaultFlags
    /\ \/ /\ flags.saveSession
          /\ file \in NoFile
          /\ live \in {in[2] : in \in ProcessInputs}
       \/ /\ ~flags.saveSession
          /\ \/ \E in \in ProcessInputs : file = FileOf(in[1]) /\ live = in[2]
             \/ file \in NoFile /\ live \in {in[2] : in \in ProcessInputs}

\* A run without --save-session over the restore inputs.
InitRestore ==
    /\ InitProcess
    /\ flags \in {f \in DefaultFlags : ~f.saveSession /\ f.autoSave}
    /\ \/ \E in \in RestoreInputs : file = FileOf(in[1]) /\ live = in[2]
       \/ file \in NoFile /\ live \in PlacementLive

\* Construct starting the snapshot cycle next to the restore pass.
Construct_AlsoStores ==
    /\ pc = "start"
    /\ Running
    /\ stores' = Append(stores, StoreCall(FALSE))
    /\ IF flags.saveSession \/ file.state # "ok"
       THEN pc' = "idle" /\ UNCHANGED session
       ELSE session' = LoadSession(file.content) /\ pc' = "restore"
    /\ spinner' = Spinning
    /\ messages' = Printed(
            IF flags.saveSession THEN Announce("Saving current session...")
            ELSE Announce("Restoring last session...")
                 \o (IF file.state # "ok" THEN log(Spinning, "No session found.") ELSE <<>>)
                 \o Announce("Saving current session..."))
    /\ UNCHANGED <<flags, live, file, idx, groups, events, matched, observed,
                   timers, snapshots, sigints, exitCode, ctl>>

\* The constructor (lines 136-144) and restoreSession up to its loop (lines
\* 382-400): with --save-session the snapshot cycle starts; otherwise the
\* session file is loaded, and the snapshot cycle starts when that fails.
Construct ==
    /\ pc = "start"
    /\ Running
    /\ IF flags.saveSession \/ file.state # "ok"
       THEN /\ stores' = Append(stores, StoreCall(FALSE))
            /\ pc' = "idle"
            /\ UNCHANGED session
       ELSE /\ session' = LoadSession(file.content)
            /\ pc' = "restore"
            /\ UNCHANGED stores
    /\ spinner' = Spinning
    /\ messages' = Printed(
            IF flags.saveSession THEN Announce("Saving current session...")
            ELSE Announce("Restoring last session...")
                 \o (IF file.state # "ok"
                     THEN log(Spinning, "No session found.")
                          \o Announce("Saving current session...")
                     ELSE <<>>))
    /\ UNCHANGED <<flags, live, file, idx, groups, events, matched, observed,
                   timers, snapshots, sigints, exitCode, ctl>>

\* RestoreAbort going on with the next saved window instead of leaving the loop.
RestoreAbort_Continues ==
    /\ pc = "restore"
    /\ Running
    /\ idx <= Len(session)
    /\ events' = Append(events, clients(idx, "findMatchingWindow"))
    /\ idx' = idx + 1
    /\ messages' = Printed(
            log(spinner, "Restoring " \o session[idx].initialClass \o "...")
            \o consoleLog("SyntaxError") \o consoleLog("JSON Parse error"))
    /\ UNCHANGED <<flags, live, file, pc, session, groups, matched, observed,
                   stores, timers, snapshots, sigints, exitCode, spinner, ctl>>

\* One iteration of the loop (lines 402-424) whose matcher query fails: the
\* matcher prints the exception and rethrows it (utils.ts, line 262), it is
\* caught at line 420, its message is printed and the loop is left.
RestoreAbort ==
    /\ pc = "restore"
    /\ Running
    /\ idx <= Len(session)
    /\ events' = Append(events, clients(idx, "findMatchingWindow"))
    /\ pc' = "aborted"
    /\ messages' = Printed(
            log(spinner, "Restoring " \o session[idx].initialClass \o "...")
            \o consoleLog("SyntaxError") \o consoleLog("JSON Parse error"))
    /\ UNCHANGED <<flags, live, file, session, idx, groups, matched, observed,
                   stores, timers, snapshots, sigints, exitCode, spinner, ctl>>

\* The effect of one iteration that ran outcome r (of setWindowProperties or
\* applyRules) after the matcher returned index m; matched keeps, per
\* processed window, the matcher's answer and whether the catch clause of
\* setWindowProperties ran; said is what the iteration logged.
Processed(m, r, said) ==
    /\ messages' = Printed(said)
    /\ events' = events \o <<clients(idx, "findMatchingWindow")>> \o r.events
    /\ groups' = r.groups
    /\ observed' = observed \o r.calls
    /\ matched' = Append(matched, [saved |-> session[idx].address, live |-> m,
                                   caught |-> r.caught])
    /\ idx' = idx + 1
    /\ UNCHANGED <<flags, live, file, pc, session, stores, timers, snapshots,
                   sigints, exitCode, spinner, ctl>>

\* RestoreFound with setWindowProperties letting its exception through: the
\* loop's catch clause prints it and leaves the loop.
RestoreFound_Rethrows ==
    /\ pc = "restore"
    /\ Running
    /\ idx <= Len(session)
    /\ LET m == findMatchingWindow(session[idx], live)
       IN  /\ m # 0
           /\ \E reply \in ClientsReplies(live) :
                LET r == setWindowProperties(session[idx], live[m], idx, groups, reply)
                IN  /\ messages' = Printed(
                            log(spinner, "Restoring " \o session[idx].initialClass \o "...")
                            \o log(spinner, "Found window for " \o live[m].initialClass)
                            \o (IF r.caught
                                THEN consoleLog("TypeError")
                                ELSE log(spinner, "Restored " \o session[idx].initialClass)))
                    /\ events' = events \o <<clients(idx, "findMatchingWindow")>> \o r.events
                    /\ groups' = r.groups
                    /\ observed' = observed \o r.calls
                    /\ matched' = Append(matched, [saved |-> session[idx].address, live |-> m,
                                                   caught |-> r.caught])
                    /\ IF r.caught
                       THEN pc' = "aborted" /\ idx' = idx
                       ELSE pc' = pc /\ idx' = idx + 1
    /\ UNCHANGED <<flags, live, file, session, stores, timers, snapshots,
                   sigints, exitCode, spinner, ctl>>

\* One iteration whose saved window has a live match (lines 406-411).
RestoreFound ==
    /\ pc = "restore"
    /\ Running
    /\ idx <= Len(session)
    /\ LET m == findMatchingWindow(session[idx], live)
       IN  /\ m # 0
           /\ \E reply \in ClientsReplies(live) :
                LET r == setWindowProperties(session[idx], live[m], idx, groups, reply)
                IN  Processed(m, r,
                        log(spinner, "Restoring " \o session[idx].initialClass \o "...")
                        \o log(spinner, "Found window for " \o live[m].initialClass)
                        \o (IF r.caught
                            THEN log(spinner, "TypeError")
                            ELSE log(spinner, "Restored " \o session[idx].initialClass)))

\* One iteration whose saved window has no live match (lines 414-419).
RestoreLaunch ==
    /\ pc = "restore"
    /\ Running
    /\ idx <= Len(session)
    /\ findMatchingWindow(session[idx], live) = 0
    /\ Processed(0, applyRules(session[idx], idx, groups),
            log(spinner, "Restoring " \o session[idx].initialClass \o "...")
            \o log(spinner, "Starting application " \o session[idx].initialClass \o "...")
            \o log(spinner, "Restored " \o session[idx].initialClass))

\* RestoreEnd that goes on to storeSession whatever --restore-session says.
RestoreEnd_AlwaysStores ==
    /\ \/ pc = "restore" /\ idx > Len(session)
       \/ pc = "aborted"
    /\ Running
    /\ pc' = "idle"
    /\ stores' = Append(stores, StoreCall(FALSE))
    /\ messages' = Printed(
            log(spinner, "Session restored!") \o Announce("Saving current session..."))
    /\ spinner' = Spinning
    /\ UNCHANGED <<flags, live, file, session, idx, groups, events, matched,
                   observed, timers, snapshots, sigints, exitCode, ctl>>

\* The end of restoreSession (lines 426-431).
RestoreEnd ==
    /\ \/ pc = "restore" /\ idx > Len(session)
       \/ pc = "aborted"
    /\ Running
    /\ pc' = "idle"
    /\ IF flags.restoreSession
       THEN exitCode' = <<0>> /\ UNCHANGED stores
       ELSE stores' = Append(stores, StoreCall(FALSE)) /\ UNCHANGED exitCode
    /\ messages' = Printed(
            log(spinner, "Session restored!")
            \o (IF flags.restoreSession THEN <<>>
                ELSE Announce("Saving current session...")))
    /\ spinner' = IF flags.restoreSession THEN spinner ELSE Spinning
    /\ UNCHANGED <<flags, live, file, session, idx, groups, events, matched,
                   observed, timers, snapshots, sigints, ctl>>

\* storeSession's first try block (lines 340-352) fails: clients() throws, or
\* a resolver call rejects or finds no process.
StoreListFails ==
    /\ Running
    /\ \E k \in 1..Len(stores) :
        /\ stores[k].phase = "clients"
        /\ \E error \in ListErrors(live) :
            stores' = [stores EXCEPT ![k] = [@ EXCEPT !.failed = TRUE, !.error = error]]
    /\ exitCode' = <<1>>
    /\ messages' = Printed(log(spinner, "ERROR"))
    /\ UNCHANGED <<flags, live, file, pc, session, idx, groups, events, matched,
                   observed, timers, snapshots, sigints, spinner, ctl>>

\* The clients() call of storeSession never resolves (hyprctl awaits a
\* connection that is not established): the call stays where it is.
StoreListHangs ==
    /\ Running
    /\ \E k \in 1..Len(stores) :
        /\ stores[k].phase = "clients"
        /\ stores' = [stores EXCEPT ![k].phase = "pending"]
    /\ UNCHANGED <<flags, live, file, pc, session, idx, groups, events, matched,
                   observed, timers, snapshots, sigints, exitCode, spinner,
                   messages, ctl>>

\* storeSession's first try block succeeds: the content to write is fixed.
StoreList ==
    /\ Running
    /\ \E k \in 1..Len(stores) :
        /\ stores[k].phase = "clients"
        /\ stores' = [stores EXCEPT ![k] = [@ EXCEPT !.phase = "write",
                                                     !.content = Written(live)]]
    /\ UNCHANGED <<flags, live, file, pc, session, idx, groups, events, matched,
                   observed, timers, snapshots, sigints, exitCode, spinner,
                   messages, ctl>>

\* StoreWriteFails that logs the error and schedules the next snapshot.
StoreWriteFails_Continues ==
    /\ Running
    /\ \E k \in 1..Len(stores) :
        /\ stores[k].phase = "write"
        /\ stores' = [stores EXCEPT ![k] = [@ EXCEPT !.failed = TRUE, !.error = "write"]]
    /\ timers' = Append(timers, flags.interval * 1000)
    /\ messages' = Printed(log(spinner, "ERROR"))
    /\ UNCHANGED <<flags, live, file, pc, session, idx, groups, events, matched,
                   observed, snapshots, sigints, exitCode, spinner, ctl>>

\* writeFile rejects (lines 361-364).
StoreWriteFails ==
    /\ Running
    /\ \E k \in 1..Len(stores) :
        /\ stores[k].phase = "write"
        /\ stores' = [stores EXCEPT ![k] = [@ EXCEPT !.failed = TRUE, !.error = "write"]]
    /\ exitCode' = <<1>>
    /\ messages' = Printed(log(spinner, "ERROR"))
    /\ UNCHANGED <<flags, live, file, pc, session, idx, groups, events, matched,
                   observed, timers, snapshots, sigints, spinner, ctl>>

\* StoreWrite deciding by --auto-save alone, whatever `once' is.
StoreWrite_IgnoresOnce ==
    /\ Running
    /\ \E k \in 1..Len(stores) :
        /\ stores[k].phase = "write"
        /\ file' = [state |-> "ok", content |-> stores[k].content]
        /\ snapshots' = snapshots + 1
        /\ stores' = Remove(stores, k)
        /\ IF ~flags.autoSave
           THEN /\ exitCode' = <<0>>
                /\ messages' = Printed(log(spinner, "Saved current session"))
                /\ UNCHANGED timers
           ELSE /\ timers' = Append(timers, flags.interval * 1000)
                /\ messages' = Printed(log(spinner, "Saved current session. Waiting..."))
                /\ UNCHANGED exitCode
    /\ UNCHANGED <<flags, live, pc, session, idx, groups, events, matched,
                   observed, sigints, spinner, ctl>>

\* StoreWrite scheduling the next snapshot after the default interval.
StoreWrite_DefaultDelay ==
    /\ Running
    /\ \E k \in 1..Len(stores) :
        /\ stores[k].phase = "write"
        /\ file' = [state |-> "ok", content |-> stores[k].content]
        /\ snapshots' = snapshots + 1
        /\ stores' = Remove(stores, k)
        /\ IF stores[k].once # FALSE \/ ~flags.autoSave
           THEN /\ exitCode' = <<0>>
                /\ messages' = Printed(log(spinner, "Saved current session"))
                /\ UNCHANGED timers
           ELSE /\ timers' = Append(timers, DefaultInterval * 1000)
                /\ messages' = Printed(log(spinner, "Saved current session. Waiting..."))
                /\ UNCHANGED exitCode
    /\ UNCHANGED <<flags, live, pc, session, idx, groups, events, matched,
                   observed, sigints, spinner, ctl>>

\* writeFile resolves (lines 355-367): the process exits with 0 after a
\* save-once, otherwise the next snapshot is scheduled.
StoreWrite ==
    /\ Running
    /\ \E k \in 1..Len(stores) :
        /\ stores[k].phase = "write"
        /\ file' = [state |-> "ok", content |-> stores[k].content]
        /\ snapshots' = snapshots + 1
        /\ stores' = Remove(stores, k)
        /\ IF stores[k].once # FALSE \/ ~flags.autoSave
           THEN /\ exitCode' = <<0>>
                /\ messages' = Printed(log(spinner, "Saved current session"))
                /\ UNCHANGED timers
           ELSE /\ timers' = Append(timers, flags.interval * 1000)
                /\ messages' = Printed(log(spinner, "Saved current session. Waiting..."))
                /\ UNCHANGED exitCode
    /\ UNCHANGED <<flags, live, pc, session, idx, groups, events, matched,
                   observed, sigints, spinner, ctl>>

\* TimerFires for a timer that stays armed (setInterval).
TimerFires_Interval ==
    /\ Running
    /\ timers # <<>>
    /\ snapshots < MaxSnapshots
    /\ stores' = Append(stores, StoreCall(FALSE))
    /\ spinner' = Spinning
    /\ messages' = Printed(Announce("Saving current session..."))
    /\ UNCHANGED <<flags, live, file, pc, session, idx, groups, events, matched,
                   observed, timers, snapshots, sigints, exitCode, ctl>>

\* The timer set at line 367 fires.
TimerFires ==
    /\ Running
    /\ timers # <<>>
    /\ snapshots < MaxSnapshots
    /\ timers' = Tail(timers)
    /\ stores' = Append(stores, StoreCall(FALSE))
    /\ spinner' = Spinning
    /\ messages' = Printed(Announce("Saving current session..."))
    /\ UNCHANGED <<flags, live, file, pc, session, idx, groups, events, matched,
                   observed, snapshots, sigints, exitCode, ctl>>

\* The SIGINT handler calling storeSession() without `once'.
Sigint_Periodic ==
    /\ Running
    /\ pc # "start"
    /\ sigints < MaxSigint
    /\ sigints' = sigints + 1
    /\ stores' = Append(stores, StoreCall(FALSE))
    /\ spinner' = Spinning
    /\ messages' = Printed(Announce("Saving current session..."))
    /\ UNCHANGED <<flags, live, file, pc, session, idx, groups, events, matched,
                   observed, timers, snapshots, exitCode, ctl>>

\* The SIGINT handler (lines 440-443) starts storeSession(true).
Sigint ==
    /\ Running
    /\ pc # "start"
    /\ sigints < MaxSigint
    /\ sigints' = sigints + 1
    /\ stores' = Append(stores, StoreCall(TRUE))
    /\ spinner' = Spinning
    /\ messages' = Printed(Announce("Saving current session..."))
    /\ UNCHANGED <<flags, live, file, pc, session, idx, groups, events, matched,
                   observed, timers, snapshots, exitCode, ctl>>

Next ==
    \/ Construct
    \/ RestoreAbort
    \/ RestoreFound
    \/ RestoreLaunch
    \/ RestoreEnd
    \/ StoreListFails
    \/ StoreListHangs
    \/ StoreList
    \/ StoreWriteFails
    \/ StoreWrite
    \/ TimerFires
    \/ Sigint

Spec == Init /\ [][Next]_vars

\* The process under the scheduling the runtime guarantees: a timer that is
\* due fires, and a storeSession call that awaits the window list or the
\* write of the file gets an outcome (the list, an exception, or a clients()
\* call that stays pending; the write or its failure).  No step of the
\* restore pass and no signal is required to happen.
InitFair ==
    /\ InitProcess
    /\ flags \in {f \in Flags : ~f.silent}
    /\ live = LiveOf(3, <<"free", "gone", "free">>)
    /\ file \in {FileOf(TrioSaved), [state |-> "absent", content |-> <<>>]}

Fairness ==
    /\ WF_vars(TimerFires)
    /\ WF_vars(StoreList \/ StoreListFails \/ StoreListHangs)
    /\ WF_vars(StoreWrite \/ StoreWriteFails)

SpecFair == InitFair /\ [][Next]_vars /\ Fairness

\* The restore pass alone: no signal arrives and no snapshot step is taken.
NextRestore ==
    \/ Construct
    \/ RestoreAbort
    \/ RestoreFound
    \/ RestoreLaunch
    \/ RestoreEnd

SpecRestore == InitRestore /\ [][NextRestore]_vars

(***************************************************************************)
(* One HyprBun.hyprctl call after the other (src/hyprbun.ts, lines         *)
(* 303-358): phase "opening" while open() awaits the connect event,        *)
(* "waiting" once the command is written and the timeout is armed,         *)
(* "resolved" when the promise is resolved with msg.                       *)
(***************************************************************************)
\* The delay of hyprctl's timeout, in ms.
HyprctlTimeout == 1000

Commands == {"j/clients", "dispatch togglegroup ", "dispatch settiled address:0x1"}
Chunks == {"[", "]"}

InitCtl ==
    /\ InitProcess
    /\ flags = [restoreSession |-> TRUE, saveSession |-> FALSE, autoSave |-> TRUE,
                interval |-> DefaultInterval, silent |-> FALSE]
    /\ file = [state |-> "absent", content |-> <<>>]
    /\ live = <<>>

CtlUnchanged ==
    UNCHANGED <<flags, live, file, pc, session, idx, groups, events, matched,
                observed, stores, timers, snapshots, sigints, exitCode, spinner,
                messages>>

\* hyprctl(cmd) is called: chunks is emptied and open() is awaited, which
\* resolves at once when the socket is connected and else calls connect().
CtlCall ==
    /\ ctl.phase \in {"idle", "resolved"}
    /\ ctl.calls < MaxCalls
    /\ \E cmd \in Commands :
        ctl' = [ctl EXCEPT !.cmd = cmd, !.chunks = <<>>, !.msg = "",
                           !.calls = @ + 1,
                           !.phase = IF ctl.connected THEN "waiting" ELSE "opening",
                           !.written = IF ctl.connected THEN cmd ELSE "",
                           !.timeout = IF ctl.connected THEN HyprctlTimeout ELSE 0]
    /\ CtlUnchanged

\* The connect event: open() resolves, the command is written, the timeout
\* is armed and the end and data listeners are registered.
CtlConnect ==
    /\ ctl.phase = "opening"
    /\ ctl' = [ctl EXCEPT !.connected = TRUE, !.written = ctl.cmd,
                           !.timeout = HyprctlTimeout, !.phase = "waiting"]
    /\ CtlUnchanged

\* The connection fails: the socket emits an error event, which has no
\* listener, and the runtime ends the process with an uncaught exception.
CtlConnectError ==
    /\ ctl.phase = "opening"
    /\ ctl' = [ctl EXCEPT !.phase = "crashed"]
    /\ CtlUnchanged

\* A data event: onData keeps the chunk.
CtlData ==
    /\ ctl.phase = "waiting"
    /\ Len(ctl.chunks) < MaxChunks
    /\ \E chunk \in Chunks : ctl' = [ctl EXCEPT !.chunks = Append(@, chunk)]
    /\ CtlUnchanged

\* endSocket: the socket is closed and the promise resolved with the chunks.
endSocket(c) ==
    [c EXCEPT !.connected = FALSE, !.timeout = 0, !.msg = Join(c.chunks, ""),
              !.phase = "resolved"]

\* The compositor ends the connection: onEnd clears the timeout and ends.
CtlEnd ==
    /\ ctl.phase = "waiting"
    /\ ctl' = endSocket(ctl)
    /\ CtlUnchanged

\* The timeout fires.
CtlTimeout ==
    /\ ctl.phase = "waiting"
    /\ ctl.timeout > 0
    /\ ctl' = endSocket(ctl)
    /\ CtlUnchanged

NextCtl ==
    \/ CtlCall
    \/ CtlConnect
    \/ CtlConnectError
    \/ CtlData
    \/ CtlEnd
    \/ CtlTimeout

\* A timeout that is armed fires; whether the compositor accepts the
\* connection, sends data or ends the connection is up to the compositor.
SpecCtl == InitCtl /\ [][NextCtl]_vars /\ WF_vars(CtlTimeout)

(***************************************************************************)
(* The matcher alone: findMatchingWindow applied to a saved descriptor and *)
(* a live list that differ freely in the four attributes it compares.      *)
(***************************************************************************)
MatchWindows ==
    {[Window("0x0", 1, FALSE, <<800, 600>>, <<0, 0>>, "1", <<>>)
        EXCEPT !.initialTitle = t, !.initialClass = ic, !.class = c, !.pid = p] :
        t \in {"App1", "App2"}, ic \in {"class1", "class2"},
        c \in {"a", "ab", "b"}, p \in 1..2}

\* A live list addresses its windows by position.
Addressed(list) == [j \in 1..Len(list) |-> [list[j] EXCEPT !.address = Address(j)]]

InitMatch ==
    /\ InitProcess
    /\ flags = [restoreSession |-> TRUE, saveSession |-> FALSE, autoSave |-> TRUE,
                interval |-> DefaultInterval, silent |-> FALSE]
    /\ file \in {FileOf(<<w>>) : w \in MatchWindows}
    /\ live \in {Addressed(list) : list \in SeqsUpTo(MatchWindows, MaxLive)}

\* One call findMatchingWindow(client) for the only window of the file.
Match ==
    /\ pc = "start"
    /\ session' = file.content
    /\ matched' = <<[saved  |-> file.content[1].address,
                     live   |-> findMatchingWindow(file.content[1], live),
                     caught |-> FALSE]>>
    /\ pc' = "matched"
    /\ UNCHANGED <<flags, live, file, idx, groups, events, observed, stores,
                   timers, snapshots, sigints, exitCode, spinner, messages, ctl>>

SpecMatch == InitMatch /\ [][Match]_vars

(***************************************************************************)
(* C1: findMatchingWindow returns the first window, in list order, that    *)
(* satisfies the highest-priority rule any window satisfies (initialTitle  *)
(* equality, initialClass equality, class equality, live class contains    *)
(* the saved class, pid equality), and undefined exactly when no window    *)
(* satisfies any rule.                                                     *)
(***************************************************************************)
C1_Contains(s, sub) ==
    \E a \in 0..Len(s) : \E b \in a..Len(s) : SubSeq(s, a + 1, b) = sub

C1_Rule(n, d, w) ==
    CASE n = 1 -> w.initialTitle = d.initialTitle
      [] n = 2 -> w.initialClass = d.initialClass
      [] n = 3 -> w.class = d.class
      [] n = 4 -> C1_Contains(w.class, d.class)
      [] n = 5 -> w.pid = d.pid

C1_Satisfying(n) == {j \in 1..Len(live) : C1_Rule(n, session[1], live[j])}

C1_Least(S) == CHOOSE x \in S : \A y \in S : x <= y

C1_MatcherPicksByRank ==
    pc = "matched" =>
        IF \A n \in 1..5 : C1_Satisfying(n) = {}
        THEN matched[1].live = 0
        ELSE matched[1].live =
                C1_Least(C1_Satisfying(C1_Least({n \in 1..5 : C1_Satisfying(n) # {}})))

\* A title match at the second position wins over a class and pid match at the first.
C1_Witness ==
    /\ pc = "matched"
    /\ Len(live) = 2
    /\ matched[1].live = 2
    /\ live[1].initialTitle # session[1].initialTitle
    /\ live[1].class = session[1].class
    /\ live[1].pid = session[1].pid
    /\ live[2].initialTitle = session[1].initialTitle

(***************************************************************************)
(* C2: restoreSession processes the saved windows in descending order of   *)
(* saved group size, windows of equal group size in file order: of any two *)
(* windows the one processed first has the larger group, or an equal group *)
(* and the earlier place in the file, and no window still to be processed  *)
(* should have come before a processed one.                                *)
(***************************************************************************)
C2_Place(a) == CHOOSE k \in 1..Len(file.content) : file.content[k].address = a
C2_Size(a) == Len(file.content[C2_Place(a)].grouped)
C2_Before(a, b) ==
    \/ C2_Size(a) > C2_Size(b)
    \/ C2_Size(a) = C2_Size(b) /\ C2_Place(a) < C2_Place(b)
C2_Done == {matched[j].saved : j \in 1..Len(matched)}

C2_DescendingGroupSize ==
    pc \in {"restore", "aborted", "idle"} /\ file.state = "ok" =>
        /\ \A i, j \in 1..Len(matched) :
                i < j => C2_Before(matched[i].saved, matched[j].saved)
        /\ \A k \in 1..Len(file.content) :
                file.content[k].address \notin C2_Done =>
                    \A a \in C2_Done : C2_Before(a, file.content[k].address)
        /\ (pc = "restore" /\ idx > Len(session)) => Len(matched) = Len(file.content)

\* The file holds group sizes 0, 3, 1, 0, 3 and all five windows were processed.
C2_Witness ==
    /\ file.state = "ok"
    /\ [k \in 1..Len(file.content) |-> Len(file.content[k].grouped)] = <<0, 3, 1, 0, 3>>
    /\ [j \in 1..Len(matched) |-> matched[j].saved]
            = <<Address(2), Address(5), Address(3), Address(1), Address(4)>>

(***************************************************************************)
(* C3: in one pass, the first checkGroup call for a key returns false and  *)
(* records exactly its address, and every later call for the key returns   *)
(* true and appends its address, whatever calls for other keys come in     *)
(* between: each call's result tells whether an earlier call had the key,  *)
(* and the tracker holds per key the addresses of its calls in call order. *)
(***************************************************************************)
C3_CallsFor(key) == SelectSeq(observed, LAMBDA c : c.key = key)

C3_ObserveFirstThenExisting ==
    /\ \A n \in 1..Len(observed) :
            observed[n].result = (\E m \in 1..(n - 1) : observed[m].key = observed[n].key)
    /\ DOMAIN groups = {observed[n].key : n \in 1..Len(observed)}
    /\ \A key \in DOMAIN groups :
            groups[key] = [n \in 1..Len(C3_CallsFor(key)) |-> C3_CallsFor(key)[n].address]

\* Calls for two keys alternate, and the second call for each key returned true.
C3_Witness ==
    /\ Len(observed) = 4
    /\ observed[1].key = observed[3].key
    /\ observed[2].key = observed[4].key
    /\ observed[1].key # observed[2].key
    /\ ~observed[1].result /\ ~observed[2].result
    /\ observed[3].result /\ observed[4].result
    /\ Len(groups[observed[1].key]) = 2

(***************************************************************************)
(* What a pass did for the saved window at position j of the processing    *)
(* order.                                                                  *)
(***************************************************************************)
EventsFor(j) == SelectSeq(events, LAMBDA e : e.i = j)
DispatchesFor(j) == SelectSeq(events, LAMBDA e : e.i = j /\ e.kind = "dispatch")
Found(j) == matched[j].live # 0
MatchOf(j) == live[matched[j].live]
PassComplete == pc \in {"restore", "idle"} /\ Len(session) > 0 /\ Len(matched) = Len(session)

(***************************************************************************)
(* C4 (as amended): when every saved window has a live match whose         *)
(* floating flag, size, position, workspace name and group membership      *)
(* equal the saved ones, the pass issues no dispatch at all for a tiled    *)
(* window (no settiled, movetoworkspace, togglegroup, moveintogroup,       *)
(* resize or move), and for a floating window exactly a resizewindowpixel  *)
(* and a movewindowpixel carrying the saved size and position.             *)
(***************************************************************************)
C4_Equal(j) ==
    /\ Found(j)
    /\ MatchOf(j).floating = session[j].floating
    /\ MatchOf(j).size = session[j].size
    /\ MatchOf(j).at = session[j].at
    /\ MatchOf(j).workspace.name = session[j].workspace.name
    /\ MatchOf(j).grouped = session[j].grouped

C4_AllEqual == PassComplete /\ \A j \in 1..Len(session) : C4_Equal(j)

C4_Resize(j) ==
    [kind |-> "dispatch", i |-> j, cmd |-> "resizewindowpixel",
     args |-> ToString(session[j].size[1]) \o " " \o ToString(session[j].size[2])
              \o " address:" \o MatchOf(j).address]
C4_Move(j) ==
    [kind |-> "dispatch", i |-> j, cmd |-> "movewindowpixel",
     args |-> ToString(session[j].at[1]) \o " " \o ToString(session[j].at[2])
              \o " address:" \o MatchOf(j).address]

C5_Scenario(j) ==
    /\ session[j].floating
    /\ session[j].size = <<800, 600>>
    /\ session[j].at = <<100, 100>>
    /\ session[j].workspace.name = "1"
    /\ session[j].grouped = <<>>
    /\ Found(j)
    /\ MatchOf(j).initialTitle = session[j].initialTitle
    /\ MatchOf(j).size = <<400, 300>>
    /\ MatchOf(j).workspace.name = "2"

C5_ExactlyThreeDispatches ==
    \A j \in 1..Len(matched) :
        C5_Scenario(j) =>
            DispatchesFor(j) =
                <<[kind |-> "dispatch", i |-> j, cmd |-> "resizewindowpixel",
                   args |-> "800 600 address:" \o MatchOf(j).address],
                  [kind |-> "dispatch", i |-> j, cmd |-> "movewindowpixel",
                   args |-> "100 100 address:" \o MatchOf(j).address],
                  [kind |-> "dispatch", i |-> j, cmd |-> "movetoworkspace",
                   args |-> "1,address:" \o MatchOf(j).address]>>

(***************************************************************************)
(* C6: for a saved window the matcher finds no live window for, the pass   *)
(* issues the matcher's query and then exactly one dispatch, an exec whose *)
(* argument is a bracketed rule prefix followed by the saved launch        *)
(* command (appImage, else flatpak, else cmd); no other dispatch and no    *)
(* further query is issued for that window, so the next saved window's     *)
(* query follows the exec at once.                                         *)
(***************************************************************************)
C6_Has(d, f) == f \in DOMAIN d /\ d[f] # ""
C6_Launch(d) ==
    IF C6_Has(d, "appImage") THEN d.appImage
    ELSE IF C6_Has(d, "flatpak") THEN d.flatpak
    ELSE d.cmd

C6_IsLaunchOf(e, d) ==
    /\ e.kind = "dispatch"
    /\ e.cmd = "exec"
    /\ Len(e.args) > Len(C6_Launch(d)) + 2
    /\ SubSeq(e.args, 1, 1) = "["
    /\ SubSeq(e.args, Len(e.args) - Len(C6_Launch(d)) - 1, Len(e.args))
            = "] " \o C6_Launch(d)

C6_Place(j) == CHOOSE n \in 1..Len(events) : events[n].i = j /\ events[n].kind = "dispatch"

C6_LaunchIsOneExec ==
    \A j \in 1..Len(matched) :
        ~Found(j) =>
            /\ Len(EventsFor(j)) = 2
            /\ EventsFor(j)[1] = [kind |-> "clients", i |-> j,
                                  cmd |-> "findMatchingWindow", args |-> ""]
            /\ C6_IsLaunchOf(EventsFor(j)[2], session[j])
            /\ j < Len(matched) =>
                    events[C6_Place(j) + 1] = [kind |-> "clients", i |-> j + 1,
                                               cmd |-> "findMatchingWindow", args |-> ""]

\* A window saved with a flatpak application was launched by it, a window
\* saved with an AppImage by that, and the pass went on to a further window.
C6_Witness ==
    /\ \E j \in 1..Len(matched) :
            /\ ~Found(j)
            /\ j < Len(matched)
            /\ "flatpak" \in DOMAIN session[j]
            /\ "appImage" \notin DOMAIN session[j]
    /\ \E j \in 1..Len(matched) :
            /\ ~Found(j)
            /\ "appImage" \in DOMAIN session[j]
            /\ session[j].grouped # <<>>

(***************************************************************************)
(* C7 (as amended): for a saved group of two windows sharing one group     *)
(* key, each launched or found live in no group, the first processed       *)
(* member makes checkGroup return false and the second makes it return     *)
(* true.  A member found live gets a togglegroup dispatch when it is the   *)
(* first; when it is the second it gets one guessSideOfGroup query and,    *)
(* if guessSideOfGroup returns, a moveintogroup dispatch whose direction   *)
(* is the value returned ('r' when the first member's live x-coordinate    *)
(* is not less than its own, else 'l'); guessSideOfGroup raises, and no    *)
(* moveintogroup is issued, when its query fails or when the first member  *)
(* was launched.  A launched member gets no togglegroup and no             *)
(* moveintogroup dispatch: its exec rule prefix carries 'group new' when   *)
(* it is the first and 'group set' when it is the second.                  *)
(***************************************************************************)
C7_Kind(j) ==
    IF ~Found(j) THEN "launched"
    ELSE IF MatchOf(j).grouped = <<>> THEN "free"
    ELSE "grouped"

\* The processed pairs of members of a saved group of two.
C7_Pairs ==
    {p \in (1..Len(matched)) \X (1..Len(matched)) :
        /\ p[1] < p[2]
        /\ Len(session[p[1]].grouped) = 2
        /\ session[p[1]].grouped = session[p[2]].grouped}

C7_Key(j) == session[j].grouped[1] \o ":" \o session[j].grouped[2]

\* The checkGroup call made for the processed window j.
C7_Calling(j) == session[j].grouped # <<>> /\ C7_Kind(j) # "grouped"
C7_CallOf(j) == observed[Cardinality({k \in 1..j : C7_Calling(k)})]

C7_GroupDispatches(j) ==
    SelectSeq(DispatchesFor(j), LAMBDA e : e.cmd \in {"togglegroup", "moveintogroup"})
C7_SideQueries(j) ==
    SelectSeq(EventsFor(j), LAMBDA e : e.kind = "clients" /\ e.cmd = "guessSideOfGroup")

C7_Toggle(j) == [kind |-> "dispatch", i |-> j, cmd |-> "togglegroup", args |-> ""]
C7_MoveInto(a, b) ==
    [kind |-> "dispatch", i |-> b, cmd |-> "moveintogroup",
     args |-> IF MatchOf(a).at[1] >= MatchOf(b).at[1] THEN "r" ELSE "l"]

C7_RuleHas(j, rule) ==
    \E n \in 1..Len(DispatchesFor(j)) :
        /\ DispatchesFor(j)[n].cmd = "exec"
        /\ C1_Contains(DispatchesFor(j)[n].args, rule)

C7_First(a) ==
    /\ C7_CallOf(a).key = C7_Key(a)
    /\ ~C7_CallOf(a).result
    /\ IF C7_Kind(a) = "free"
       THEN C7_GroupDispatches(a) = <<C7_Toggle(a)>>
       ELSE C7_GroupDispatches(a) = <<>> /\ C7_RuleHas(a, " group new;")

C7_Second(a, b) ==
    /\ C7_CallOf(b).key = C7_Key(b)
    /\ C7_CallOf(b).result
    /\ IF C7_Kind(b) = "launched"
       THEN /\ C7_GroupDispatches(b) = <<>>
            /\ C7_SideQueries(b) = <<>>
            /\ C7_RuleHas(b, " group set;")
       ELSE /\ Len(C7_SideQueries(b)) = 1
            /\ C7_Kind(a) = "launched" => matched[b].caught
            /\ C7_GroupDispatches(b) =
                    IF matched[b].caught THEN <<>> ELSE <<C7_MoveInto(a, b)>>

C8_Stopped == pc \in {"aborted", "idle"} /\ Len(matched) < Len(session)

C8_FailFast ==
    C8_Stopped =>
        /\ events # <<>>
        /\ events[Len(events)] = [kind |-> "clients", i |-> Len(matched) + 1,
                                  cmd |-> "findMatchingWindow", args |-> ""]
        /\ \A n \in 1..(Len(events) - 1) : events[n].i <= Len(matched)
        /\ \A j \in (Len(matched) + 2)..Len(session) : EventsFor(j) = <<>>

\* The pass was left at the second of four saved windows and the process
\* went on to its snapshot cycle.
C8_Witness ==
    /\ pc = "idle"
    /\ Len(matched) = 1
    /\ Len(session) = 4
    /\ Len(stores) = 1

(***************************************************************************)
(* C9: once storeSession has written the live window list L, the session   *)
(* file holds one descriptor per window of L in the order of L, each with  *)
(* every attribute of its window unchanged and with no other fields than   *)
(* cmd, appImage and flatpak added; loading the file yields exactly these  *)
(* descriptors, one per window of L.                                       *)
(***************************************************************************)
C9_Carries(d, w) ==
    /\ DOMAIN w \subseteq DOMAIN d
    /\ \A f \in DOMAIN w : d[f] = w[f]
    /\ DOMAIN d \ DOMAIN w \subseteq {"cmd", "appImage", "flatpak"}

C9_Loaded == LoadSession(file.content)

C9_RoundTrip ==
    snapshots > 0 =>
        /\ file.state = "ok"
        /\ Len(file.content) = Len(live)
        /\ \A k \in 1..Len(live) : C9_Carries(file.content[k], live[k])
        /\ Len(C9_Loaded) = Len(live)
        /\ \A k \in 1..Len(live) :
                Cardinality({j \in 1..Len(C9_Loaded) : C9_Carries(C9_Loaded[j], live[k])}) = 1

\* Three live windows were written: the first got a command line only, the
\* second a flatpak application, the third an AppImage.
C9_Witness ==
    /\ snapshots > 0
    /\ Len(live) = 3
    /\ DOMAIN file.content[1] \ DOMAIN live[1] = {"cmd"}
    /\ "flatpak" \in DOMAIN file.content[2]
    /\ "appImage" \in DOMAIN file.content[3]

(***************************************************************************)
(* C10: a failure inside storeSession, while the live windows are listed   *)
(* or while the session file is written, makes the process exit with       *)
(* status 1; from then on no snapshot timer is scheduled, no snapshot is   *)
(* written and the exit status never becomes 0.                            *)
(***************************************************************************)
C10_Failed == \E k \in 1..Len(stores) : stores[k].failed

C10_FailureIsFatal ==
    /\ [](C10_Failed => exitCode = <<1>>)
    /\ [][C10_Failed =>
            /\ exitCode' = <<1>>
            /\ timers' = timers
            /\ snapshots' = snapshots
            /\ file' = file
            /\ stores' = stores]_vars

\* After one snapshot was written, a later call of storeSession failed
\* while writing the file.
C10_Witness ==
    /\ snapshots = 1
    /\ \E k \in 1..Len(stores) : stores[k].failed /\ stores[k].phase = "write"
    /\ exitCode = <<1>>

(***************************************************************************)
(* C11 (as amended): in restore-only mode (--restore-session without       *)
(* --save-session), when the session file can be loaded and no SIGINT      *)
(* arrives, no snapshot is started or written and no timer is scheduled,   *)
(* and the step that ends the restore pass, completed or aborted, exits    *)
(* with status 0; when the session file cannot be loaded, no restore       *)
(* dispatch is issued and the process starts storeSession at once, as it   *)
(* does without the flag.                                                  *)
(***************************************************************************)
C11_RestoreOnly == flags.restoreSession /\ ~flags.saveSession

C11_Quiet ==
    sigints = 0 =>
        /\ stores = <<>>
        /\ snapshots = 0
        /\ timers = <<>>
        /\ exitCode \in {<<>>, <<0>>}
        /\ exitCode = <<0>> <=> pc = "idle"

C11_Fallback ==
    pc # "start" =>
        /\ pc = "idle"
        /\ events = <<>>
        /\ stores # <<>> \/ snapshots > 0

C12_SaveOnceCall(k) == stores[k].once \/ ~flags.autoSave

C12_Write(k) ==
    /\ stores[k].phase = "write"
    /\ stores' = SubSeq(stores, 1, k - 1) \o SubSeq(stores, k + 1, Len(stores))
    /\ file' = [state |-> "ok", content |-> stores[k].content]
    /\ snapshots' = snapshots + 1
    /\ IF C12_SaveOnceCall(k)
       THEN exitCode' = <<0>> /\ timers' = timers
       ELSE exitCode' = <<>> /\ Len(timers') = Len(timers) + 1

C12_SaveOnce ==
    /\ [](~flags.autoSave =>
            /\ snapshots <= 1
            /\ timers = <<>>
            /\ snapshots = 1 => exitCode = <<0>>)
    /\ [][(snapshots' # snapshots \/ file' # file) =>
            \E k \in 1..Len(stores) : C12_Write(k)]_vars

\* With auto-save enabled a first call wrote the file and scheduled a timer,
\* then the call started by SIGINT wrote it again and the process exited
\* with status 0, the timer still pending.
C12_Witness ==
    /\ flags.saveSession
    /\ flags.autoSave
    /\ sigints = 1
    /\ snapshots = 2
    /\ Len(timers) = 1
    /\ exitCode = <<0>>

(***************************************************************************)
(* C13: without --save-session and --restore-session the snapshot cycle is *)
(* started once, by the step that ends the restore attempt: at once, with  *)
(* no matcher query and no dispatch ever issued, when the session file     *)
(* cannot be loaded; otherwise by the step that ends the restore loop,     *)
(* completed or aborted.  Until then no storeSession() call is in flight   *)
(* and no timer is pending, and afterwards storeSession() is called by     *)
(* timers only.                                                            *)
(***************************************************************************)
C13_Default == ~flags.saveSession /\ ~flags.restoreSession

C13_CycleCalls == SelectSeq(stores, LAMBDA c : ~c.once)

C13_CallStarts ==
    /\ Len(stores') = Len(stores) + 1
    /\ ~stores'[Len(stores')].once

C14_Schedules ==
    snapshots' # snapshots =>
        \E k \in 1..Len(stores) :
            /\ stores[k].phase = "write"
            /\ stores' = SubSeq(stores, 1, k - 1) \o SubSeq(stores, k + 1, Len(stores))
            /\ IF ~stores[k].once /\ flags.autoSave
               THEN timers' = timers \o <<1000 * flags.interval>>
               ELSE timers' = timers

C14_Cycling ==
    /\ flags.autoSave
    /\ exitCode = <<>>
    /\ \/ timers # <<>>
       \/ \E k \in 1..Len(stores) : ~stores[k].once

C14_Stopped ==
    \/ exitCode # <<>>
    \/ sigints > 0
    \/ \E k \in 1..Len(stores) : stores[k].phase = "pending"

C14_PeriodicSnapshots ==
    /\ [](~flags.autoSave => timers = <<>>)
    /\ [](Len(timers) <= 1)
    /\ [][C14_Schedules]_vars
    /\ [][(timers' # timers /\ snapshots' = snapshots) =>
            /\ timers' = Tail(timers)
            /\ stores' = stores \o <<StoreCall(FALSE)>>]_vars
    /\ \A n \in 0..(MaxSnapshots - 1) :
            (C14_Cycling /\ snapshots = n) ~> (snapshots > n \/ C14_Stopped)

\* With --interval 5 the second snapshot was written and its timer, due
\* after 5000 ms, is pending.
C14_Witness ==
    /\ flags.autoSave
    /\ flags.interval = 5
    /\ sigints = 0
    /\ snapshots = 2
    /\ timers = <<5000>>
    /\ exitCode = <<>>

(***************************************************************************)
(* C15: every hyprctl call eventually completes: once called, its promise  *)
(* is eventually resolved, also when the connection to the compositor      *)
(* socket is never established.                                            *)
(***************************************************************************)
C15_EveryCallCompletes ==
    (ctl.phase \in {"opening", "waiting"}) ~> (ctl.phase = "resolved")

C18_SilentPrintsNothing ==
    flags.silent => messages = EmptyBag

(***************************************************************************)
(* C19: a snapshot whose resolver failed for some live window (the flatpak *)
(* listing, the desktop-entry directory or the process of the window's     *)
(* pid) does not end the process with status 1.                            *)
(***************************************************************************)
C19_ResolverErrors == {"flatpak", "desktop", "process"}

C19_ResolutionNotFatal ==
    \A k \in 1..Len(stores) :
        stores[k].error \in C19_ResolverErrors => exitCode # <<1>>

(***************************************************************************)
(* guessSideOfGroup alone: the live windows of one group at x-coordinates  *)
(* drawn freely, the tracker's list for the group's key in any order, and  *)
(* any of the live windows as the candidate.                               *)
(***************************************************************************)
Xs == {0 - 960, 0, 960}

SideGroup == <<"0xa", "0xb">>

SideLive ==
    {[k \in 1..MaxMembers |->
        Window(Address(k), k, FALSE, <<800, 600>>, <<x[k], 0>>, "1", <<Address(k)>>)] :
        x \in [1..MaxMembers -> Xs]}

\* The lists checkGroup can have recorded for the key: one or two live
\* windows, no window twice.
SideRecorded ==
    {r \in UNION {[1..m -> {Address(k) : k \in 1..MaxMembers}] : m \in 1..2} :
        \A a, b \in 1..Len(r) : a # b => r[a] # r[b]}

InitSide ==
    /\ pc = "start"
    /\ session = <<>>
    /\ idx = 1
    /\ events = <<>>
    /\ observed = <<>>
    /\ stores = <<>>
    /\ timers = <<>>
    /\ snapshots = 0
    /\ sigints = 0
    /\ exitCode = <<>>
    /\ spinner = FALSE
    /\ messages = EmptyBag
    /\ ctl = NoCall
    /\ flags = [restoreSession |-> TRUE, saveSession |-> FALSE, autoSave |-> TRUE,
                interval |-> DefaultInterval, silent |-> FALSE]
    /\ file = [state |-> "absent", content |-> <<>>]
    /\ live \in SideLive
    /\ \E r \in SideRecorded, j \in 1..MaxMembers :
          /\ groups = [k \in {groupIdentifier(SideGroup)} |-> r]
          /\ matched = <<[saved |-> "0xb", live |-> j, caught |-> FALSE]>>

\* One call guessSideOfGroup(win, group) for the matched live window; the
\* call's clients() query is answered by reply.
GuessSide ==
    /\ pc = "start"
    /\ \E reply \in ClientsReplies(live) :
          LET win == live[matched[1].live]
              side == guessSideOfGroup(win, SideGroup, groups, reply)
          IN  /\ events' = <<clients(1, "guessSideOfGroup")>>
              /\ observed' = <<[key |-> groupIdentifier(SideGroup),
                                address |-> win.address,
                                result |-> side]>>
              /\ matched' = [matched EXCEPT ![1].caught = (side = Throws)]
    /\ pc' = "guessed"
    /\ UNCHANGED <<flags, live, file, session, idx, groups, stores, timers,
                   snapshots, sigints, exitCode, spinner, messages, ctl>>

SpecSide == InitSide /\ [][GuessSide]_vars

(***************************************************************************)
(* C20: guessSideOfGroup returns 'r' exactly when the current x-coordinate *)
(* of the base window, the first address the tracker recorded for the      *)
(* group's key, is greater than or equal to the candidate's current        *)
(* x-coordinate, and 'l' otherwise, for every pair of x-coordinates.       *)
(***************************************************************************)
C20_XOf(address) ==
    (CHOOSE w \in {live[j] : j \in 1..Len(live)} : w.address = address).at[1]

C20_BaseX == C20_XOf(Head(groups[groupIdentifier(SideGroup)]))

C20_CandidateX == C20_XOf(observed[1].address)

C21_Prefix(a, b) == Len(a) <= Len(b) /\ SubSeq(b, 1, Len(a)) = a

C21_Grows ==
    \A key \in DOMAIN groups :
        /\ key \in DOMAIN groups'
        /\ C21_Prefix(groups[key], groups'[key])
        /\ Len(groups[key]) > 0

C21_TrackerMonotone == [][C21_Grows]_vars

\* Two keys are present and the list of one holds two addresses.
C21_Witness ==
    /\ Cardinality(DOMAIN groups) = 2
    /\ \E key \in DOMAIN groups : Len(groups[key]) = 2

(***************************************************************************)
(* C22: for a found window whose saved descriptor is floating,             *)
(* setWindowProperties issues a command that makes the live window         *)
(* floating when it is not floating, and never a command that makes it     *)
(* tiled.                                                                  *)
(***************************************************************************)
C22_Cmds(j) == {DispatchesFor(j)[n].cmd : n \in 1..Len(DispatchesFor(j))}

C22_FloatingRestored ==
    \A j \in 1..Len(matched) :
        (Found(j) /\ session[j].floating) =>
            /\ ~MatchOf(j).floating =>
                    C22_Cmds(j) \cap {"setfloating", "togglefloating"} # {}
            /\ "settiled" \notin C22_Cmds(j)

(***************************************************************************)
(* C23: for a found window, setWindowProperties issues a movetoworkspace   *)
(* dispatch exactly when the saved workspace name differs from the live    *)
(* one; its argument is the saved name without a leading "special:",       *)
(* a comma, and the live window's address; none is issued when the names   *)
(* are equal.                                                              *)
(***************************************************************************)
C23_Suffixes(name) == {SubSeq(name, a, Len(name)) : a \in 1..(Len(name) + 1)}

C23_Target(name) ==
    IF \E rest \in C23_Suffixes(name) : name = "special:" \o rest
    THEN CHOOSE rest \in C23_Suffixes(name) : name = "special:" \o rest
    ELSE name

C23_Moves(j) == SelectSeq(DispatchesFor(j), LAMBDA e : e.cmd = "movetoworkspace")

C23_MoveToWorkspace ==
    \A j \in 1..Len(matched) :
        Found(j) =>
            C23_Moves(j) =
                IF session[j].workspace.name # MatchOf(j).workspace.name
                THEN <<[kind |-> "dispatch", i |-> j, cmd |-> "movetoworkspace",
                        args |-> C23_Target(session[j].workspace.name)
                                 \o ",address:" \o MatchOf(j).address]>>
                ELSE <<>>

\* A window saved on special:x and found on workspace 2 was moved to x.
C23_Witness ==
    \E j \in 1..Len(matched) :
        /\ Found(j)
        /\ session[j].workspace.name = "special:x"
        /\ MatchOf(j).workspace.name = "2"
        /\ Len(C23_Moves(j)) = 1
        /\ C23_Moves(j)[1].args = "x,address:" \o MatchOf(j).address

(***************************************************************************)
(* C24: for a found window with saved group membership, a                  *)
(* togglespecialworkspace dispatch (the "special:" prefix stripped) is     *)
(* issued exactly when the tracker's count for the saved group key equals  *)
(* the saved group's member count and the saved workspace is special; when *)
(* each saved group of n members appears as n saved windows it is issued   *)
(* at most once per group; and evaluating the condition never raises, also *)
(* when the live match was already grouped and the key was never observed. *)
(***************************************************************************)
C24_Key(j) == groupIdentifier(session[j].grouped)

C24_Toggles(j) == SelectSeq(DispatchesFor(j), LAMBDA e : e.cmd = "togglespecialworkspace")

C24_Special(j) == C23_Target(session[j].workspace.name) # session[j].workspace.name

\* The window processed last: the tracker is as its setWindowProperties left it.
C24_Complete(j) ==
    /\ C24_Key(j) \in DOMAIN groups
    /\ Len(groups[C24_Key(j)]) = Len(session[j].grouped)
    /\ C24_Special(j)

C24_WholeGroups ==
    \A j \in 1..Len(session) :
        Len(session[j].grouped) # 0 =>
            Cardinality({k \in 1..Len(session) : session[k].grouped = session[j].grouped})
                = Len(session[j].grouped)

\* The condition of the last processed window raised: the catch clause ran
\* and no error came from guessSideOfGroup, which was not called.
C24_ConditionRaised(j) ==
    /\ matched[j].caught
    /\ \A n \in 1..Len(EventsFor(j)) : EventsFor(j)[n].cmd # "guessSideOfGroup"

C24_ToggleSpecial ==
    /\ \A j \in 1..Len(matched) :
            (Found(j) /\ Len(session[j].grouped) # 0) =>
                /\ ~C24_ConditionRaised(j)
                /\ j = Len(matched) =>
                        C24_Toggles(j) =
                            IF C24_Complete(j)
                            THEN <<[kind |-> "dispatch", i |-> j,
                                    cmd |-> "togglespecialworkspace",
                                    args |-> C23_Target(session[j].workspace.name)]>>
                            ELSE <<>>
    /\ C24_WholeGroups =>
            \A j \in 1..Len(matched) :
                Cardinality({k \in 1..Len(matched) :
                        /\ session[k].grouped = session[j].grouped
                        /\ Len(C24_Toggles(k)) > 0}) <= 1

(***************************************************************************)
(* C25: an error raised inside setWindowProperties for a found window is   *)
(* caught there: the window's remaining commands are skipped (nothing is   *)
(* issued for it after the point of the error), the pass is not aborted    *)
(* and the loop goes on with the next saved window.                        *)
(***************************************************************************)
C25_New == SubSeq(events', Len(events) + 1, Len(events'))

C25_Step ==
    (Len(matched') = Len(matched) + 1 /\ matched'[Len(matched')].caught) =>
        /\ pc' = "restore"
        /\ idx' = idx + 1
        /\ \A n \in 1..Len(C25_New) :
                /\ C25_New[n].cmd \notin {"moveintogroup", "togglespecialworkspace"}
                /\ C25_New[n].cmd = "guessSideOfGroup" => n = Len(C25_New)

C25_CaughtInWindow == [][C25_Step]_vars

\* guessSideOfGroup raised for the second saved window, on a special
\* workspace with its group complete, and the third window was found and
\* processed after it.
C25_Witness ==
    /\ Len(matched) = 3
    /\ matched[2].caught
    /\ Found(3)
    /\ ~matched[3].caught
    /\ \E n \in 1..Len(EventsFor(2)) : EventsFor(2)[n].cmd = "guessSideOfGroup"
    /\ C24_Complete(2)
    /\ Len(DispatchesFor(3)) > 0

(***************************************************************************)
(* C27 (as amended): the snapshot cycle and the restore pass are           *)
(* serialized.  While the restore loop has saved windows left to process   *)
(* no timer is pending and no storeSession() call of the cycle is in       *)
(* flight; the only storeSession call that can start during a pass is the  *)
(* SIGINT handler's storeSession(true).                                    *)
(***************************************************************************)
C27_Restoring == pc = "restore" /\ idx <= Len(session)

C27_CycleStore == \E k \in 1..Len(stores) : ~stores[k].once /\ stores[k].phase = "clients"

C26_Rank(e) ==
    CASE e.cmd = "findMatchingWindow" -> 0
      [] e.cmd = "resizewindowpixel" -> 1
      [] e.cmd = "movewindowpixel" -> 2
      [] e.cmd = "settiled" -> 3
      [] e.cmd = "movetoworkspace" -> 4
      [] e.cmd = "guessSideOfGroup" -> 5
      [] e.cmd \in {"togglegroup", "moveintogroup"} -> 6
      [] e.cmd = "togglespecialworkspace" -> 7
      [] e.cmd = "exec" -> 8

C26_Sequential ==
    /\ \A a, b \in 1..Len(events) : a < b => events[a].i <= events[b].i
    /\ \A a \in 1..Len(events) :
            (a = 1 \/ events[a - 1].i # events[a].i) <=> events[a].cmd = "findMatchingWindow"
    /\ \A a \in 1..(Len(events) - 1) :
            events[a].i = events[a + 1].i => C26_Rank(events[a]) < C26_Rank(events[a + 1])
    /\ \A a \in 1..Len(events) : events[a].cmd = "exec" <=> C26_Rank(events[a]) = 8

\* One found window got all six commands.
C26_Witness ==
    /\ Len(matched) = 1
    /\ Found(1)
    /\ [n \in 1..Len(DispatchesFor(1)) |-> DispatchesFor(1)[n].cmd]
            = <<"resizewindowpixel", "movewindowpixel", "settiled", "movetoworkspace",
                "togglegroup", "togglespecialworkspace">>

(***************************************************************************)
(* C28: in the processing order the members of one saved group are         *)
(* consecutive: no window of another group or of no group is processed     *)
(* between two members of the same group, whatever the session file.       *)
(***************************************************************************)
C28_GroupsContiguous ==
    \A a, b, c \in 1..Len(matched) :
        (a < b /\ b < c /\ Len(session[a].grouped) # 0
               /\ session[a].grouped = session[c].grouped) =>
            session[b].grouped = session[a].grouped

(***************************************************************************)
(* C29: during a restore pass every entry of the tracker is the address of *)
(* a live window the matcher returned in this pass; so whenever            *)
(* guessSideOfGroup is called for a key, the key's first entry is the      *)
(* address of a window of the live set.                                    *)
(***************************************************************************)
C29_Returned == {MatchOf(j).address : j \in {k \in 1..Len(matched) : Found(k)}}

C29_LiveAddresses == {live[n].address : n \in 1..Len(live)}

C29_TrackerHoldsLiveAddresses ==
    /\ \A key \in DOMAIN groups :
            \A n \in 1..Len(groups[key]) : groups[key][n] \in C29_Returned
    /\ \A j \in 1..Len(matched) :
            (\E n \in 1..Len(EventsFor(j)) : EventsFor(j)[n].cmd = "guessSideOfGroup") =>
                groups[C24_Key(j)][1] \in C29_LiveAddresses

(***************************************************************************)
(* C30: the rule prefix applyRules builds for a launched window starts     *)
(* with 'float' when the saved descriptor is floating and with 'tile'      *)
(* otherwise; holds 'size w h' and 'move x y' only when it is floating;    *)
(* holds 'group new' when the saved window is in a group whose key was not *)
(* observed before in the pass, 'group set' when it was, 'group deny' when *)
(* the window is in no group; and always holds 'workspace <saved name>     *)
(* silent'.                                                                *)
(***************************************************************************)
C30_Exec(j) == SelectSeq(DispatchesFor(j), LAMBDA e : e.cmd = "exec")

C30_Starts(s, prefix) == Len(s) >= Len(prefix) /\ SubSeq(s, 1, Len(prefix)) = prefix

\* The key of the window processed last was observed by an earlier window.
C30_ObservedBefore ==
    \E n \in 1..(Len(observed) - 1) : observed[n].key = observed[Len(observed)].key

C30_GroupRule(j) ==
    IF Len(session[j].grouped) = 0 THEN "deny"
    ELSE IF C30_ObservedBefore THEN "set"
    ELSE "new"

C30_RulePrefix ==
    \A j \in 1..Len(matched) :
        ~Found(j) =>
            /\ Len(C30_Exec(j)) = 1
            /\ LET rules == C30_Exec(j)[1].args
                   c == session[j]
               IN  /\ C30_Starts(rules, IF c.floating THEN "[float;" ELSE "[tile;")
                   /\ Includes(rules, " size ") => c.floating
                   /\ Includes(rules, " move ") => c.floating
                   /\ c.floating =>
                        /\ Includes(rules, " size " \o ToString(c.size[1]) \o " "
                                            \o ToString(c.size[2]) \o ";")
                        /\ Includes(rules, " move " \o ToString(c.at[1]) \o " "
                                            \o ToString(c.at[2]) \o ";")
                   /\ Includes(rules, " workspace " \o c.workspace.name \o " silent;")
                   /\ j = Len(matched) =>
                        \A k \in {"deny", "set", "new"} :
                            Includes(rules, " group " \o k \o ";") <=> k = C30_GroupRule(j)

\* A floating window in a new group on a special workspace was launched.
C30_Witness ==
    /\ Len(matched) = 1
    /\ ~Found(1)
    /\ Len(C30_Exec(1)) = 1
    /\ C30_Exec(1)[1].args =
        "[float; size 800 600; move 100 100; group new; workspace special:x silent; ] app1 --bar"

\* The second member of a group was launched after the first: 'group set'.
C30_WitnessSet ==
    /\ Len(matched) = 2
    /\ ~Found(2)
    /\ C30_ObservedBefore
    /\ Includes(C30_Exec(2)[1].args, " group set;")

(***************************************************************************)
(* C31: when the session file exists but cannot be loaded (unreadable, not *)
(* valid JSON, entries without a grouped list), restoreSession is fatal:   *)
(* the process exits with a non-zero status where it read the file, and    *)
(* the file is never overwritten with a fresh snapshot.                    *)
(***************************************************************************)
C31_Unloadable == file.state = "corrupt" /\ ~flags.saveSession

C31_Step ==
    C31_Unloadable =>
        /\ file' = file
        /\ (pc = "start" /\ pc' # "start") => (exitCode' # <<>> /\ exitCode' # <<0>>)

C31_ReadFailureIsFatal == [][C31_Step]_vars

(***************************************************************************)
(* C32: in every reachable state at most one snapshot timer is pending and *)
(* no storeSession() call of the cycle runs next to another or next to a   *)
(* pending timer: one chain is started per process, and a timer is         *)
(* scheduled only by a step that wrote a snapshot.                         *)
(***************************************************************************)
C32_CycleCalls == {k \in 1..Len(stores) : ~stores[k].once}

C32_OneLink == Len(timers) + Cardinality(C32_CycleCalls) <= 1

C32_Scheduling ==
    Len(timers') > Len(timers) =>
        /\ snapshots' = snapshots + 1
        /\ file'.state = "ok"
        /\ Cardinality(C32_CycleCalls) = 1

C32_SingleChain == []C32_OneLink /\ [][C32_Scheduling]_vars

\* After a restore pass the chain wrote two snapshots and its timer is
\* pending, while a storeSession(true) call of the SIGINT handler is running.
C32_Witness ==
    /\ Len(matched) = 3
    /\ snapshots = 2
    /\ Len(timers) = 1
    /\ Len(stores) = 1
    /\ stores[1].once
    /\ exitCode = <<>>

(***************************************************************************)
(* A restore pass over a session that may hold the same application       *)
(* twice: two saved windows of applications 1 or 2, in no group, against   *)
(* live lists of such windows.                                             *)
(***************************************************************************)
TwinWindow(addr, k) == Window(addr, k, FALSE, <<800, 600>>, <<0, 0>>, "1", <<>>)

TwinSaved ==
    {<<TwinWindow("0xa", a), TwinWindow("0xb", b)>> : a \in 1..2, b \in 1..2}

TwinLive ==
    {Addressed(list) : list \in SeqsUpTo({TwinWindow("0x0", k) : k \in 1..2}, MaxLive)}

InitTwins ==
    /\ InitProcess
    /\ flags \in {f \in DefaultFlags : ~f.saveSession /\ f.autoSave}
    /\ file \in {FileOf(saved) : saved \in TwinSaved}
    /\ live \in TwinLive

SpecTwins == InitTwins /\ [][NextRestore]_vars

(***************************************************************************)
(* C33: within one restore pass no live window is the match of two         *)
(* different saved windows: two found saved windows are applied to         *)
(* different live addresses, also when they share initialTitle,            *)
(* initialClass or class.                                                  *)
(***************************************************************************)
C33_MatchesDistinct ==
    \A i, j \in 1..Len(matched) :
        (i # j /\ Found(i) /\ Found(j)) => MatchOf(i).address # MatchOf(j).address

====
